---- MODULE Spec2Model ----
(***************************************************************************)
(* A model of ccdir: the two Store implementations of the repository       *)
(*   - python3/dirchecksum.py  (ext image, modes "r" and "w", save)         *)
(*   - python3/ccdir.py        (squashfs image, create_store, read-only)    *)
(* Strings are sequences of one-character strings, file contents are       *)
(* sequences of bytes, a directory tree is a function from relative paths   *)
(* (sequences of names) to entries.                                         *)
(***************************************************************************)
EXTENDS Integers, Sequences, FiniteSets, TLC

VARIABLES
    variant,      \* "dc" (dirchecksum.py) or "cc" (ccdir.py): the module in use
    src,          \* the live source tree: relative path -> entry
    image,        \* the store file's content: NoImage, or a tree
    ctmp,         \* a temporary build directory made by create_store exists
    mode,         \* Store.mode: "r", "w" (dc); "r" for cc; "-" without a Store
    mount_point,  \* Store.mount_point, the string the constructor kept
    btmpdir,      \* Store.btmpdir
    mtmp,         \* the temporary mount point directory exists
    mounted,      \* the store file is mounted on the mount point
    pc,           \* "idle" | "body" (inside the with block) | "exit" (leaving it)
    closeRet,     \* outcome of close(): "none" | "ok" | "raised"
    last,         \* the last call: operation, outcome, arguments
    built         \* the last successful build: its pattern sets, and the snapshot
                  \* the same walk writes into an empty directory

vars == <<variant, src, image, ctmp, mode, mount_point, btmpdir, mtmp,
          mounted, pc, closeRet, last, built>>

(***************************************************************************)
(* Bounds of the model.                                                     *)
(***************************************************************************)
\* number of names a top-level directory entry can have ("a", "b", ...)
MaxNames == 2
\* number of names an entry of the sub-directory "a" can have
MaxChild == 1
\* stored/live file lengths range up to threshold + MaxOver
MaxOver == 1

(***************************************************************************)
(* Program constants.                                                       *)
(***************************************************************************)
\* hashlib.md5(b'').digest_size
DigestSize == 16
\* width of the ">Q" field of _fmt
SizeFieldLen == 8
\* struct.calcsize(_fmt): the threshold
minsz == SizeFieldLen + DigestSize

\* no store file
NoImage == [present |-> FALSE, tree |-> <<>>]
StoreFileOf(t) == [present |-> TRUE, tree |-> t]
\* a pattern argument: None, or a list of patterns
None == [given |-> FALSE, pats |-> <<>>]
Pats(l) == [given |-> TRUE, pats |-> l]
\* mount_point=None
NoMountPoint == <<"None">>

(***************************************************************************)
(* Strings.                                                                 *)
(***************************************************************************)
Sep == "/"

StartsWith(s, p) == Len(s) >= Len(p) /\ SubSeq(s, 1, Len(p)) = p

RECURSIVE SplitAcc(_, _, _, _)
SplitAcc(s, i, cur, acc) ==
    IF i > Len(s) THEN Append(acc, cur)
    ELSE IF s[i] = Sep THEN SplitAcc(s, i + 1, <<>>, Append(acc, cur))
    ELSE SplitAcc(s, i + 1, Append(cur, s[i]), acc)

\* str.split('/')
Split(s) == SplitAcc(s, 1, <<>>, <<>>)

RECURSIVE JoinComps(_)
\* '/'.join(comps)
JoinComps(comps) ==
    IF comps = <<>> THEN <<>>
    ELSE IF Len(comps) = 1 THEN comps[1]
    ELSE comps[1] \o <<Sep>> \o JoinComps(Tail(comps))

\* os.path.join(a, b) for two strings
PathJoin(a, b) ==
    IF b # <<>> /\ b[1] = Sep THEN b
    ELSE IF a = <<>> \/ a[Len(a)] = Sep THEN a \o b
    ELSE a \o <<Sep>> \o b

RECURSIVE NormComps(_, _, _)
\* the loop of posixpath.normpath over the components of an absolute path
NormComps(comps, i, new) ==
    IF i > Len(comps) THEN new
    ELSE LET comp == comps[i] IN
         IF comp = <<>> \/ comp = <<".">> THEN NormComps(comps, i + 1, new)
         ELSE IF comp # <<".", ".">> \/ (new # <<>> /\ new[Len(new)] = <<".", ".">>)
              THEN NormComps(comps, i + 1, Append(new, comp))
         ELSE IF new # <<>> THEN NormComps(comps, i + 1, SubSeq(new, 1, Len(new) - 1))
         ELSE NormComps(comps, i + 1, new)

\* the working directory of the process
Cwd == <<"/", "w">>

\* os.path.abspath(path): join with the working directory, then normpath
\* (paths starting with exactly two slashes are not among the inputs)
AbsPath(path) ==
    LET full == IF path # <<>> /\ path[1] = Sep THEN path ELSE PathJoin(Cwd, path)
    IN  <<Sep>> \o JoinComps(NormComps(Split(full), 1, <<>>))

(***************************************************************************)
(* fnmatch.fnmatch for patterns made of literals, "*" and "?".              *)
(***************************************************************************)
RECURSIVE FnMatchFrom(_, _, _, _)
FnMatchFrom(s, i, p, j) ==
    IF j > Len(p) THEN i > Len(s)
    ELSE IF p[j] = "*"
         THEN FnMatchFrom(s, i, p, j + 1) \/ (i <= Len(s) /\ FnMatchFrom(s, i + 1, p, j))
    ELSE /\ i <= Len(s)
         /\ (p[j] = "?" \/ p[j] = s[i])
         /\ FnMatchFrom(s, i + 1, p, j + 1)

fnmatch(s, pat) == FnMatchFrom(s, 1, pat, 1)

\* _in_patterns(s, patterns)
_in_patterns(s, patterns) == \E k \in 1..Len(patterns.pats) : fnmatch(s, patterns.pats[k])

(***************************************************************************)
(* File contents, digest and the record codec.                              *)
(***************************************************************************)
Fill(n, b) == [i \in 1..n |-> b]

RECURSIVE ByteSum(_, _)
ByteSum(data, i) == IF i > Len(data) THEN 0 ELSE (i * (data[i] + 1) + ByteSum(data, i + 1)) % 251

\* _get_file_md5 on a file with content data: a 16-byte digest that is a function
\* of the content (the stand-in for MD5 is a position-weighted checksum)
_get_file_md5(data) == [i \in 1..DigestSize |-> (ByteSum(data, 1) + i * Len(data)) % 256]

RECURSIVE BigEndian(_, _)
BigEndian(n, width) ==
    IF width = 0 THEN <<>> ELSE Append(BigEndian(n \div 256, width - 1), n % 256)

\* struct.pack(_fmt, size, md5)
Pack(size, md5) == BigEndian(size, SizeFieldLen) \o md5

\* struct.unpack(_fmt, data): struct.error unless len(data) == calcsize(_fmt).
\* The unsigned 64-bit sz is kept as its eight base-256 digits, most
\* significant first (it does not fit the checker's integers).
Unpack(data) ==
    IF Len(data) # minsz THEN [ok |-> FALSE, sz |-> <<>>, md5 |-> <<>>]
    ELSE [ok |-> TRUE,
          sz |-> SubSeq(data, 1, SizeFieldLen),
          md5 |-> SubSeq(data, SizeFieldLen + 1, minsz)]

\* sz == n, for an unpacked sz and a file size n
SizeIs(sz, n) == sz = BigEndian(n, SizeFieldLen)

(***************************************************************************)
(* Directory trees.  A path is a sequence of names, a name is a string (a   *)
(* sequence of characters); a tree maps the paths that exist to entries.    *)
(***************************************************************************)
Dir == [type |-> "dir", data |-> <<>>, target |-> <<>>]
Reg(d) == [type |-> "reg", data |-> d, target |-> <<>>]
Lnk(t) == [type |-> "lnk", data |-> <<>>, target |-> t]
Missing == [type |-> "none", data |-> <<>>, target |-> <<>>]

EmptyTree == <<>>

\* What lies outside the source tree and outside the mounted root: the objects
\* the symbolic links of the model point to (a small file, a file of more than
\* threshold bytes, a directory; any other target dangles).
ExtSmall == <<"/", "x", "/", "s">>
ExtLarge == <<"/", "x", "/", "l">>
ExtDir == <<"/", "x", "/", "d">>
ExtNone == <<"/", "x", "/", "n">>
Targets == {ExtSmall, ExtLarge, ExtDir, ExtNone}

ExtLookup(abs) ==
    IF abs = ExtSmall THEN Reg(Fill(3, 7))
    ELSE IF abs = ExtLarge THEN Reg(Fill(minsz + 1, 7))
    ELSE IF abs = ExtDir THEN Dir
    ELSE Missing

\* the object a call that follows symbolic links (os.stat, open) ends at
Follow(e) == IF e.type = "lnk" THEN ExtLookup(e.target) ELSE e

lexists(e) == e.type # "none"
exists(e) == Follow(e).type # "none"
isdir(e) == Follow(e).type = "dir"
islink(e) == e.type = "lnk"
\* os.lstat(path).st_size
_get_file_size(e) == IF e.type = "lnk" THEN Len(e.target) ELSE Len(e.data)

At(tree, p) == IF p \in DOMAIN tree THEN tree[p] ELSE Missing

Without(tree, gone) == [p \in DOMAIN tree \ gone |-> tree[p]]

(***************************************************************************)
(* _remove_directory_content                                                *)
(***************************************************************************)
TopNamesOf(tree) == {p[1] : p \in {q \in DOMAIN tree : Len(q) = 1}}

\* a weaker clean-up for comparison: only non-directories are removed,
\* directories and what is below them are left alone
RemoveKeepDirs(tree) ==
    Without(tree, {p \in DOMAIN tree : Len(p) = 1 /\ ~(isdir(tree[p]) /\ ~islink(tree[p]))})

\* for dn in os.listdir(dirpath): rmtree(dn) for a real directory, unlink(dn) otherwise
_remove_directory_content(tree) ==
    LET rmtree == {n \in TopNamesOf(tree) : isdir(tree[<<n>>]) /\ ~islink(tree[<<n>>])}
        unlink == TopNamesOf(tree) \ rmtree
    IN  Without(tree, {p \in DOMAIN tree : p[1] \in rmtree}
                      \cup {p \in DOMAIN tree : Len(p) = 1 /\ p[1] \in unlink})

(***************************************************************************)
(* The filter of one os.walk step.                                          *)
(***************************************************************************)
RemoveAt(s, i) == SubSeq(s, 1, i - 1) \o SubSeq(s, i + 1, Len(s))

\* the condition under which the loop removes an entry
Filtered(how, fullpath, inc, exc) ==
    CASE how = "exc" -> _in_patterns(fullpath, exc)
      [] how = "inc" -> ~_in_patterns(fullpath, inc)
      [] OTHER -> _in_patterns(fullpath, exc) \/ ~_in_patterns(fullpath, inc)

RECURSIVE RemoveWhileIterating(_, _, _, _, _, _)
\* for d in names: if <filtered>: names.remove(d)
\* The list iterator keeps an index: after a removal the entries shift down
\* and the index moves on, so the entry that followed the removed one is not
\* looked at.
RemoveWhileIterating(names, i, dirpath, how, inc, exc) ==
    IF i > Len(names) THEN names
    ELSE IF Filtered(how, PathJoin(dirpath, names[i]), inc, exc)
         THEN RemoveWhileIterating(RemoveAt(names, i), i + 1, dirpath, how, inc, exc)
    ELSE RemoveWhileIterating(names, i + 1, dirpath, how, inc, exc)

\* the filter block of the walk: ccdir.py tests both pattern sets in one loop,
\* dirchecksum.py runs one loop per pattern set that is not None
FilterNames(v, names, dirpath, inc, exc) ==
    IF v = "cc" THEN RemoveWhileIterating(names, 1, dirpath, "both", inc, exc)
    ELSE LET n1 == IF exc.given
                   THEN RemoveWhileIterating(names, 1, dirpath, "exc", inc, exc)
                   ELSE names
         IN  IF inc.given
             THEN RemoveWhileIterating(n1, 1, dirpath, "inc", inc, exc)
             ELSE n1

(***************************************************************************)
(* os.walk over the source tree: the writes of a build, in order.           *)
(***************************************************************************)
\* os.listdir order: ord lists all names, a directory's children come in that order
ListDir(tree, dir, ord) == SelectSeq(ord, LAMBDA n : Append(dir, n) \in DOMAIN tree)

RECURSIVE WalkOps(_, _, _, _, _, _)
RECURSIVE WalkDirs(_, _, _, _, _, _, _, _)

\* the recursion of os.walk into dirnames (followlinks=False); dirnames is the
\* list the loop body filtered in place
WalkDirs(v, tree, dir, dirnames, k, inc, exc, ord) ==
    IF k > Len(dirnames) THEN <<>>
    ELSE (IF islink(tree[Append(dir, dirnames[k])]) THEN <<>>
          ELSE WalkOps(v, tree, Append(dir, dirnames[k]), inc, exc, ord))
         \o WalkDirs(v, tree, dir, dirnames, k + 1, inc, exc, ord)

\* one (dirpath, dirnames, filenames) step and the steps below it
WalkOps(v, tree, dir, inc, exc, ord) ==
    LET listing == ListDir(tree, dir, ord)
        dirs == SelectSeq(listing, LAMBDA n : isdir(tree[Append(dir, n)]))
        nondirs == SelectSeq(listing, LAMBDA n : ~isdir(tree[Append(dir, n)]))
        dirpath == JoinComps(dir)
        dirnames == FilterNames(v, dirs, dirpath, inc, exc)
        filenames == FilterNames(v, nondirs, dirpath, inc, exc)
        mk == IF dir = <<>> THEN <<>> ELSE <<[op |-> "mkdir", path |-> dir]>>
        files == [k \in 1..Len(filenames) |->
                     [op |-> "file", path |-> Append(dir, filenames[k])]]
    IN  mk \o files \o WalkDirs(v, tree, dir, dirnames, 1, inc, exc, ord)

(***************************************************************************)
(* Writing one entry of filenames, and the whole build.                     *)
(***************************************************************************)
Stored(e) == [ok |-> TRUE, entry |-> e]
WriteFailed == [ok |-> FALSE, entry |-> Missing]

\* the body of "for fn in filenames": what is written at fn2 for source entry e.
\* ccdir.py tests os.path.islink first; dirchecksum.py does not, and both
\* shutil.copy2 and open() follow a symbolic link (and fail on a dangling one).
StoreFile(v, e) ==
    IF v = "cc" /\ islink(e) THEN Stored(Lnk(e.target))
    ELSE IF _get_file_size(e) < minsz
         THEN IF exists(e) THEN Stored(Reg(Follow(e).data)) ELSE WriteFailed
    ELSE IF exists(e)
         THEN Stored(Reg(Pack(_get_file_size(e), _get_file_md5(Follow(e).data))))
    ELSE WriteFailed

RECURSIVE ApplyOps(_, _, _, _, _)
\* the writes of the walk, one after the other, up to the first that raises
ApplyOps(v, tree, ops, k, dest) ==
    IF k > Len(ops) THEN [ok |-> TRUE, tree |-> dest]
    ELSE LET o == ops[k] IN
         IF o.op = "mkdir"
         THEN IF o.path \in DOMAIN dest THEN [ok |-> FALSE, tree |-> dest]
              ELSE ApplyOps(v, tree, ops, k + 1, (o.path :> Dir) @@ dest)
         ELSE LET w == StoreFile(v, tree[o.path]) IN
              IF ~w.ok THEN [ok |-> FALSE, tree |-> dest]
              ELSE ApplyOps(v, tree, ops, k + 1, (o.path :> w.entry) @@ dest)

\* the walk of save / create_store over srcdir, writing into dest
Build(v, tree, inc, exc, ord, dest) ==
    ApplyOps(v, tree, WalkOps(v, tree, <<>>, inc, exc, ord), 1, dest)

(***************************************************************************)
(* cmpfile.                                                                 *)
(***************************************************************************)
\* the file system as cmpfile sees it: the mounted root at truemount, the
\* objects outside it
LookupAbs(abs, img, truemount) ==
    IF abs = truemount THEN Dir
    ELSE IF StartsWith(abs, truemount \o <<Sep>>)
         THEN At(img, Split(SubSeq(abs, Len(truemount) + 2, Len(abs))))
    ELSE ExtLookup(abs)

\* os.path.realpath: abspath, and a symbolic link at the end is resolved
RealPath(path, img, truemount) ==
    LET a == AbsPath(path)
        e == LookupAbs(a, img, truemount)
    IN  IF e.type = "lnk" THEN AbsPath(e.target) ELSE a

Returns(b, hashed, at) ==
    [kind |-> "ret", val |-> b, exc |-> "", hashed |-> hashed, at |-> at]
Raises(x, at) ==
    [kind |-> "raise", val |-> FALSE, exc |-> x, hashed |-> FALSE, at |-> at]

\* a weaker comparison: the record branch compares the digests only
CompareRegularNoSize(s, d, at) ==
    IF _get_file_size(d) < minsz
    THEN Returns(Follow(d).data = Follow(s).data, FALSE, at)
    ELSE LET u == Unpack(Follow(d).data) IN
         IF ~u.ok THEN Raises("struct.error", at)
         ELSE Returns(u.md5 = _get_file_md5(Follow(s).data), TRUE, at)

\* the two content branches of cmpfile, live entry s against stored entry d
CompareRegular(s, d, at) ==
    IF _get_file_size(d) < minsz
    THEN Returns(Follow(d).data = Follow(s).data, FALSE, at)
    ELSE LET u == Unpack(Follow(d).data) IN
         IF ~u.ok THEN Raises("struct.error", at)
         ELSE IF ~SizeIs(u.sz, _get_file_size(s)) THEN Returns(FALSE, FALSE, at)
         ELSE Returns(u.md5 = _get_file_md5(Follow(s).data), TRUE, at)

\* dstfile.startswith(self.mount_point + "/")
Contained(dst, mp) == StartsWith(dst, mp \o <<Sep>>)

\* ccdir.Store.cmpfile(srcfile, dstfile); s is the entry at srcfile
CcCmpfile(s, dstfile, mp, img, truemount) ==
    IF ~lexists(s) THEN Raises("ArgumentError", <<>>)
    ELSE IF isdir(s) THEN Raises("ArgumentError", <<>>)
    ELSE LET dst == AbsPath(dstfile)
             d == LookupAbs(dst, img, truemount)
         IN  IF ~Contained(dst, mp) THEN Raises("ArgumentError", <<>>)
             ELSE IF ~lexists(d) \/ isdir(d) THEN Returns(FALSE, FALSE, dst)
             ELSE IF islink(s)
                  THEN IF ~islink(d) THEN Returns(FALSE, FALSE, dst)
                       ELSE Returns(s.target = d.target, FALSE, dst)
             ELSE IF islink(d) THEN Returns(FALSE, FALSE, dst)
             ELSE CompareRegular(s, d, dst)

\* dirchecksum.Store.cmpfile(srcfile, dstfile)
DcCmpfile(m, s, dstfile, mp, img, truemount) ==
    IF m = "w" THEN Raises("ArgumentError", <<>>)
    ELSE IF ~exists(s) THEN Raises("ArgumentError", <<>>)
    ELSE IF isdir(s) THEN Raises("ArgumentError", <<>>)
    ELSE LET dst == RealPath(dstfile, img, truemount)
             d == LookupAbs(dst, img, truemount)
         IN  IF ~Contained(dst, mp) THEN Raises("ArgumentError", <<>>)
             ELSE IF ~exists(d) \/ isdir(d) THEN Returns(FALSE, FALSE, dst)
             ELSE CompareRegular(s, d, dst)

cmpfile(v, m, s, dstfile, mp, img, truemount) ==
    IF v = "cc" THEN CcCmpfile(s, dstfile, mp, img, truemount)
    ELSE DcCmpfile(m, s, dstfile, mp, img, truemount)

(***************************************************************************)
(* Inputs of the model.                                                     *)
(***************************************************************************)
NameSeq == <<(<<"a">>), (<<"b">>), (<<"c">>)>>
TopNames == {NameSeq[i] : i \in 1..MaxNames}
ChildNames == {NameSeq[i] : i \in 1..MaxChild}
AllNames == TopNames \cup ChildNames
\* the directory that can have children
SubDir == NameSeq[1]

\* regular files just below and at the threshold, links to a large file, to a
\* directory and to nothing
FileKinds ==
    {Reg(Fill(minsz - 1, 1)), Reg(Fill(minsz, 1)), Lnk(ExtLarge), Lnk(ExtDir), Lnk(ExtNone)}

TreeOf(top, sub) ==
    LET tops == {<<n>> : n \in {m \in TopNames : top[m] # Missing}}
        subs == IF top[SubDir] = Dir
                THEN {<<SubDir, c>> : c \in {m \in ChildNames : sub[m] # Missing}}
                ELSE {}
    IN  [p \in tops \cup subs |-> IF Len(p) = 1 THEN top[p[1]] ELSE sub[p[2]]]

SrcTrees ==
    {TreeOf(top, sub) : top \in [TopNames -> {Missing, Dir} \cup FileKinds],
                        sub \in [ChildNames -> {Missing} \cup FileKinds]}

Perms(S) == {s \in [1..Cardinality(S) -> S] : \A i, j \in DOMAIN s : i # j => s[i] # s[j]}

PatAll == <<"*">>
PatA == <<"a", "*">>
PatOne == <<"?">>
PatSub == <<"a", "/", "*">>

\* the defaults are None in dirchecksum.py, ["*"] and [] in ccdir.py
IncChoices(v) == (IF v = "dc" THEN {None} ELSE {Pats(<<PatAll>>)}) \cup {Pats(<<PatA>>)}
ExcChoices(v) ==
    (IF v = "dc" THEN {None} ELSE {Pats(<<>>)}) \cup {Pats(<<PatOne>>), Pats(<<PatSub>>)}

\* tempfile.mkdtemp() of the constructor, and a mount point the caller gives
TmpMount == <<"/", "t", "/", "m">>
GivenMount == <<"/", "m">>

\* a store file of an earlier run: a directory with a file, a link to a
\* directory, a file
OldTree ==
    (<<(<<"o">>)>> :> Dir) @@ (<<(<<"o">>), (<<"f">>)>> :> Reg(Fill(2, 9)))
    @@ (<<(<<"l">>)>> :> Lnk(ExtDir)) @@ (<<(<<"g">>)>> :> Reg(Fill(minsz, 9)))

\* the file system mkfs.ext2 makes
FreshTree == (<<(<<"l", "o", "s", "t", "+", "f", "o", "u", "n", "d">>)>> :> Dir)

\* a call: its name, its outcome, the live path and dstfile of a cmpfile, and a
\* note: for "exit" what ended the block, for "save" whether the root held
\* anything when it was called
Noted(op, res, srcp, dst, note) ==
    [op |-> op, res |-> res, srcp |-> srcp, dst |-> dst, note |-> note]
Call(op, res, srcp, dst) == Noted(op, res, srcp, dst, "")
NoCall == Call("none", Returns(FALSE, FALSE, <<>>), <<>>, <<>>)
NoBuild == [done |-> FALSE, inc |-> None, exc |-> None, snap |-> EmptyTree]
Built(inc, exc, ord) ==
    [done |-> TRUE, inc |-> inc, exc |-> exc,
     snap |-> Build(variant, src, inc, exc, ord, EmptyTree).tree]

(***************************************************************************)
(* The state machine.                                                       *)
(***************************************************************************)
\* the state before any call, over the source trees in trees
InitOver(trees) ==
    /\ variant \in {"dc", "cc"}
    /\ src \in trees
    /\ image \in (IF variant = "dc" THEN {NoImage, StoreFileOf(OldTree)} ELSE {NoImage})
    /\ ctmp = FALSE
    /\ mode = "-"
    /\ mount_point = <<>>
    /\ btmpdir = FALSE
    /\ mtmp = FALSE
    /\ mounted = FALSE
    /\ pc = "idle"
    /\ closeRet = "none"
    /\ last = NoCall
    /\ built = NoBuild

\* the except clause of __init__: if self.btmpdir: os.rmdir(self.mount_point)
AfterInitFailure(b, t) == IF b THEN FALSE ELSE t

\* the constructor's outcome: ok says whether mounting succeeded, img is the
\* store file afterwards
Construct(op, ok, img, m, mp) ==
    /\ image' = img
    /\ closeRet' = "none"
    /\ UNCHANGED <<variant, src, ctmp, built>>
    /\ IF ok
       THEN /\ mode' = m
            /\ mount_point' = (IF mp = NoMountPoint THEN TmpMount ELSE mp)
            /\ btmpdir' = (mp = NoMountPoint)
            /\ mtmp' = (mp = NoMountPoint)
            /\ mounted' = TRUE
            /\ pc' = "body"
            /\ last' = Call(op, Returns(TRUE, FALSE, <<>>), <<>>, <<>>)
       ELSE /\ mode' = "-"
            /\ mount_point' = <<>>
            /\ btmpdir' = FALSE
            /\ mtmp' = AfterInitFailure(mp = NoMountPoint, mp = NoMountPoint)
            /\ mounted' = FALSE
            /\ pc' = "idle"
            /\ last' = Call(op, Raises("InitError", <<>>), <<>>, <<>>)

\* dirchecksum.Store(store_file, m, mp): "r" mounts read-only, "w" creates the
\* store file when it is missing and mounts it, any other mode fails the assert
DcOpen(m, mp, mkfsOk, mountOk) ==
    /\ variant = "dc" /\ pc = "idle" /\ ~mounted
    /\ LET created == IF m = "w" /\ ~image.present /\ mkfsOk
                      THEN StoreFileOf(FreshTree) ELSE image
           ok == m \in {"r", "w"} /\ created.present /\ mountOk
       IN  Construct("open", ok, created, m, mp)

\* ccdir.Store(store_file, mp): squashfuse mounts the store file
CcOpen(mp, mountOk) ==
    /\ variant = "cc" /\ pc = "idle" /\ ~mounted
    /\ Construct("open", image.present /\ mountOk, image, "r", mp)

Body(op, res, srcp, dst, note) ==
    /\ last' = Noted(op, res, srcp, dst, note)
    /\ pc' = IF res.kind = "raise" THEN "exit" ELSE "body"
    /\ UNCHANGED <<variant, src, ctmp, mode, mount_point, btmpdir, mtmp, mounted, closeRet>>

\* a weaker guard for comparison: save does not test the mode
SaveAllowedAlways(m) == TRUE

\* save: if self.mode == "r": raise ArgumentError
SaveAllowed(m) == m # "r"

\* getdir: if self.mode == "w": raise ArgumentError (ccdir.Store has no mode)
ReadAllowed(v, m) == v = "cc" \/ m # "w"

\* dirchecksum.Store.save(srcdir, inc, exc), the directory listed in order ord
Save(inc, exc, ord) ==
    /\ variant = "dc" /\ pc = "body"
    /\ IF ~SaveAllowed(mode)
       THEN /\ Body("save", Raises("ArgumentError", <<>>), <<>>, <<>>, "")
            /\ UNCHANGED <<image, built>>
       ELSE LET r == Build("dc", src, inc, exc, ord, _remove_directory_content(image.tree)) IN
            /\ image' = StoreFileOf(r.tree)
            /\ built' = IF r.ok THEN Built(inc, exc, ord) ELSE NoBuild
            /\ Body("save", IF r.ok THEN Returns(TRUE, FALSE, <<>>) ELSE Raises("OSError", <<>>),
                    <<>>, <<>>, IF image.tree = EmptyTree THEN "empty" ELSE "nonempty")

\* getdir()
Getdir ==
    /\ pc = "body"
    /\ Body("getdir",
            IF ReadAllowed(variant, mode) THEN Returns(TRUE, FALSE, mount_point)
            ELSE Raises("ArgumentError", <<>>), <<>>, <<>>, "")
    /\ UNCHANGED <<image, built>>

\* cmpfile(srcfile, dstfile), srcfile being the live path srcp
Cmpfile(srcp, dstfile) ==
    /\ pc = "body"
    /\ Body("cmpfile",
            cmpfile(variant, mode, At(src, srcp), dstfile, mount_point, image.tree,
                    AbsPath(mount_point)),
            srcp, dstfile, "")
    /\ UNCHANGED <<image, built>>

\* the caller raises inside the with block
CallerRaise ==
    /\ pc = "body"
    /\ Body("caller", Raises("Exception", <<>>), <<>>, <<>>, "")
    /\ UNCHANGED <<image, built>>

\* the with block ends normally
BlockEnd ==
    /\ pc = "body"
    /\ pc' = "exit"
    /\ last' = Call("end", Returns(TRUE, FALSE, <<>>), <<>>, <<>>)
    /\ UNCHANGED <<variant, src, image, ctmp, mode, mount_point, btmpdir, mtmp, mounted,
                   closeRet, built>>

\* a weaker exit for comparison: close only when the block raised nothing
ExitClosesOnSuccess(raised) == ~raised

\* __exit__(type, value, traceback): self.close(), whatever type is
ExitCloses(raised) == TRUE

\* close(): ret = _exec(umount); assert ret == 0; if self.btmpdir: os.rmdir(...)
CloseOutcome(umountOk, b, t, mntd) ==
    IF umountOk
    THEN [ret |-> "ok", mounted |-> FALSE, mtmp |-> IF b THEN FALSE ELSE t]
    ELSE [ret |-> "raised", mounted |-> mntd, mtmp |-> t]

\* leaving the with block: __exit__ runs
Exit(umountOk) ==
    /\ pc = "exit"
    /\ pc' = "idle"
    /\ IF ExitCloses(last.res.kind = "raise")
       THEN LET c == CloseOutcome(umountOk, btmpdir, mtmp, mounted) IN
            /\ closeRet' = c.ret
            /\ mounted' = c.mounted
            /\ mtmp' = c.mtmp
       ELSE UNCHANGED <<closeRet, mounted, mtmp>>
    /\ last' = Noted("exit", IF closeRet' = "raised" THEN Raises("AssertionError", <<>>)
                              ELSE Returns(TRUE, FALSE, <<>>), <<>>, <<>>, last.op)
    /\ UNCHANGED <<variant, src, image, ctmp, mode, mount_point, btmpdir, built>>

\* the finally clause of create_store: if btmpdir: shutil.rmtree(tmpdir)
AfterCreate(b, t) == IF b THEN FALSE ELSE t

\* ccdir.create_store(srcdir, store_file, inc, exc) with tmpdir=None
CreateStore(inc, exc, ord, mksquashfsOk) ==
    /\ variant = "cc" /\ pc = "idle" /\ ~mounted
    /\ LET r == Build("cc", src, inc, exc, ord, EmptyTree)
           ok == r.ok /\ mksquashfsOk
       IN  /\ image' = IF ok THEN StoreFileOf(r.tree) ELSE image
           /\ built' = IF ok THEN Built(inc, exc, ord) ELSE built
           /\ last' = Call("create_store",
                           IF ok THEN Returns(TRUE, FALSE, <<>>)
                           ELSE Raises(IF r.ok THEN "SaveError" ELSE "OSError", <<>>),
                           <<>>, <<>>)
    /\ ctmp' = AfterCreate(TRUE, TRUE)
    /\ UNCHANGED <<variant, src, mode, mount_point, btmpdir, mtmp, mounted, pc, closeRet>>

\* the live path and, under the mounted root, the same relative path
SamePath(p) == PathJoin(mount_point, JoinComps(p))

\* a file, a link to a large file, a dangling link (on which save fails)
LifeTrees ==
    {(<<(<<"a">>)>> :> k) : k \in {Reg(Fill(minsz, 1)), Lnk(ExtLarge), Lnk(ExtNone)}}

Init == InitOver(LifeTrees)

\* every call, every outcome of the backend commands
Next ==
    \/ \E m \in {"r", "w", "rw"}, mp \in {NoMountPoint, GivenMount}, mkfsOk, mountOk \in BOOLEAN :
           DcOpen(m, mp, mkfsOk, mountOk)
    \/ \E mp \in {NoMountPoint, GivenMount}, mountOk \in BOOLEAN : CcOpen(mp, mountOk)
    \/ \E inc \in IncChoices("dc"), exc \in ExcChoices("dc"), ord \in Perms(AllNames) :
           Save(inc, exc, ord)
    \/ Getdir
    \/ \E p \in DOMAIN src : Cmpfile(p, SamePath(p))
    \/ CallerRaise
    \/ BlockEnd
    \/ \E umountOk \in BOOLEAN : Exit(umountOk)
    \/ \E inc \in IncChoices("cc"), exc \in ExcChoices("cc"), ord \in Perms(AllNames),
          ok \in BOOLEAN : CreateStore(inc, exc, ord, ok)

Spec == Init /\ [][Next]_vars

(***************************************************************************)
(* The builds and comparisons of every source tree of the bounds, the       *)
(* backend commands succeeding.                                             *)
(***************************************************************************)
InitTree == InitOver(SrcTrees)

NextTree ==
    \/ \E m \in {"r", "w"} : DcOpen(m, NoMountPoint, TRUE, TRUE)
    \/ CcOpen(NoMountPoint, TRUE)
    \/ \E inc \in IncChoices("dc"), exc \in ExcChoices("dc"), ord \in Perms(AllNames) :
           Save(inc, exc, ord)
    \/ \E p \in DOMAIN src : Cmpfile(p, SamePath(p))
    \/ BlockEnd
    \/ Exit(TRUE)
    \/ \E inc \in IncChoices("cc"), exc \in ExcChoices("cc"), ord \in Perms(AllNames) :
           CreateStore(inc, exc, ord, TRUE)

SpecTree == InitTree /\ [][NextTree]_vars

(***************************************************************************)
(* cmpfile on one live entry and one stored entry of any type and length,   *)
(* the live entry changing between calls.                                   *)
(***************************************************************************)
OverLens == {minsz + k : k \in 0..MaxOver}

\* contents of 0, 1, threshold - 1, threshold, ... bytes, and each with its
\* first byte changed
Contents ==
    {Fill(n, 1) : n \in {0, 1, minsz - 1} \cup OverLens}
    \cup {<<2>> \o Fill(n - 1, 1) : n \in {1, minsz - 1} \cup OverLens}

LiveKinds == {Reg(c) : c \in Contents} \cup {Lnk(t) : t \in Targets}

\* nothing, a directory, a link, a file of any of the lengths, and what either
\* builder stores for a live entry
StoredKinds ==
    {Missing, Dir} \cup LiveKinds
    \cup {StoreFile(v, k).entry : v \in {"dc", "cc"}, k \in {l \in LiveKinds : ~isdir(l)}}

OneEntry(e) == IF e = Missing THEN EmptyTree ELSE (<<(<<"a">>)>> :> e)

\* a Store open for reading, mounted on mp
Mounted(trees, images, mps) ==
    /\ variant \in {"dc", "cc"}
    /\ src \in trees
    /\ image \in images
    /\ ctmp = FALSE
    /\ mode = "r"
    /\ mount_point \in mps
    /\ btmpdir = FALSE
    /\ mtmp = FALSE
    /\ mounted = TRUE
    /\ pc = "body"
    /\ closeRet = "none"
    /\ last = NoCall
    /\ built = NoBuild

InitCmp ==
    Mounted({OneEntry(k) : k \in LiveKinds}, {StoreFileOf(OneEntry(k)) : k \in StoredKinds},
            {GivenMount})

\* the live entry is replaced (edited, truncated, turned into a link)
LiveModify(k) ==
    /\ pc = "body"
    /\ src' = OneEntry(k)
    /\ src' # src
    /\ last' = Call("modify", Returns(TRUE, FALSE, <<>>), <<>>, <<>>)
    /\ UNCHANGED <<variant, image, ctmp, mode, mount_point, btmpdir, mtmp, mounted, pc,
                   closeRet, built>>

NextCmp ==
    \/ \E p \in DOMAIN src : Cmpfile(p, SamePath(p))
    \/ \E k \in LiveKinds : LiveModify(k)

SpecCmp == InitCmp /\ [][NextCmp]_vars

(***************************************************************************)
(* cmpfile on dstfile arguments inside and outside the mounted root, for    *)
(* the mount_point strings a caller can give.                               *)
(***************************************************************************)
\* "/m", "/m/", and "m" relative to the working directory
MountPoints == {<<"/", "m">>, <<"/", "m", "/">>, <<"m">>, TmpMount}

\* below each mounted root: a, a reached through "." and "//", through "..";
\* the root itself; a sibling whose name starts with the root's; a path that
\* leaves the root through ".."; a file outside
DstTails ==
    {<<"/", "a">>, <<"/", ".", "/", "a">>, <<"/", "/", "a">>,
     <<"/", "b", "/", ".", ".", "/", "a">>,
     <<>>, <<"/">>, <<"-", "e", "/", "a">>,
     <<"/", ".", ".", "/", "x", "/", "s">>, <<"/", "a", "/", ".", ".">>}

DstFiles ==
    {r \o t : r \in {<<"/", "m">>, <<"/", "w", "/", "m">>, <<"m">>, TmpMount}, t \in DstTails}
    \cup {ExtSmall}

InitPath ==
    Mounted({OneEntry(Reg(Fill(3, 7)))}, {StoreFileOf(OneEntry(Reg(Fill(3, 7))))}, MountPoints)

NextPath == \E p \in DOMAIN src, d \in DstFiles : Cmpfile(p, d)

SpecPath == InitPath /\ [][NextPath]_vars

(***************************************************************************)
(* Properties.                                                              *)
(***************************************************************************)
\* the filter as stated: the path matches a pattern of inc (any path, when inc
\* is None) and no pattern of exc
Included(s, inc, exc) ==
    /\ ~inc.given \/ _in_patterns(s, inc)
    /\ ~(exc.given /\ _in_patterns(s, exc))

\* the path and each of its ancestor directories pass the filter
Survives(p, inc, exc) ==
    \A k \in 1..Len(p) : Included(JoinComps(SubSeq(p, 1, k)), inc, exc)

\* the root holds the snapshot of a build that succeeded
JustBuilt == last.op \in {"save", "create_store"} /\ last.res.kind = "ret" /\ built.done

\* a cmpfile of a live path against the same relative path of the snapshot
\* built from the live tree, on a Store that may be read
ComparedBuilt ==
    /\ last.op = "cmpfile" /\ built.done /\ ReadAllowed(variant, mode)
    /\ last.srcp \in DOMAIN src

\* C1: after a build and with the live tree unmodified, cmpfile of every
\* non-directory entry that passes the filter (small file, file of at least
\* threshold bytes, symbolic link) against the same relative path under the
\* mounted root returns True; it neither returns False nor raises.
C1_RoundTrip ==
    (/\ ComparedBuilt
     /\ src[last.srcp].type \in {"reg", "lnk"}
     /\ Survives(last.srcp, built.inc, built.exc))
    => last.res = Returns(TRUE, last.res.hashed, last.res.at)

\* C2 (the "only if" half): a path of the built snapshot is a path of the
\* source tree that, with each of its ancestor directories, matches an include
\* pattern and no exclude pattern: nothing that the filter rejects survives,
\* whatever the order in which a directory's children are listed.
C2_OnlyIncluded ==
    JustBuilt =>
        \A p \in DOMAIN image.tree :
            p \in DOMAIN src /\ Survives(p, built.inc, built.exc)

\* C2 (the "if" half): every path of the source tree that passes the filter
\* with each of its ancestors is in the built snapshot.
C2_AllIncluded ==
    JustBuilt =>
        \A p \in DOMAIN src : Survives(p, built.inc, built.exc) => p \in DOMAIN image.tree

\* the record the builder writes for content data
RecordOf(data) == Pack(Len(data), _get_file_md5(data))

\* C5: a regular source file that passes the filter is stored as a copy when
\* its size is below the threshold and as the threshold-sized record of its
\* size and digest otherwise; hence every regular file of a built snapshot has
\* at most threshold bytes, and exactly threshold bytes when it is a record.
C5_ThresholdRule ==
    JustBuilt =>
        /\ \A p \in DOMAIN src \cap DOMAIN image.tree :
               src[p].type = "reg" =>
                   image.tree[p] = Reg(IF Len(src[p].data) < minsz THEN src[p].data
                                       ELSE RecordOf(src[p].data))
        /\ \A q \in DOMAIN image.tree :
               image.tree[q].type = "reg" =>
                   /\ Len(image.tree[q].data) <= minsz
                   /\ Len(image.tree[q].data) = minsz
                        <=> (/\ q \in DOMAIN src
                             /\ src[q].type = "reg"
                             /\ Len(src[q].data) >= minsz)

\* where the image is mounted, component by component
TrueRoot == Split(AbsPath(mount_point))

\* dstfile as the module resolves it: abspath in ccdir.py, realpath in dirchecksum.py
Resolved(dstfile) ==
    IF variant = "cc" THEN AbsPath(dstfile)
    ELSE RealPath(dstfile, image.tree, AbsPath(mount_point))

\* the resolved path lies strictly inside the mounted root
InsideRoot(dst) ==
    LET c == Split(dst) IN Len(c) > Len(TrueRoot) /\ SubSeq(c, 1, Len(TrueRoot)) = TrueRoot

\* the live entry and the stored entry of the last cmpfile
LiveEntry == At(src, last.srcp)
StoredEntry == LookupAbs(AbsPath(last.dst), image.tree, AbsPath(mount_point))

\* C3: cmpfile raises ArgumentError whenever dstfile, resolved, is not strictly
\* inside the mounted root; it never goes on to a file outside the root; and a
\* dstfile that resolves strictly inside the root is not rejected.
C3_Containment ==
    last.op = "cmpfile" =>
        /\ ~InsideRoot(Resolved(last.dst)) => last.res = Raises("ArgumentError", <<>>)
        /\ last.res.at # <<>> => InsideRoot(last.res.at)
        /\ InsideRoot(Resolved(last.dst)) => last.res.exc # "ArgumentError"

\* the live file passes the checks cmpfile makes of srcfile
LiveOk == (IF variant = "cc" THEN lexists(LiveEntry) ELSE exists(LiveEntry)) /\ ~isdir(LiveEntry)

\* C4: whenever the live file exists and is not a directory and the stored
\* path lies inside the mounted root, cmpfile returns True or False and raises
\* nothing, whatever the type, length and content of the stored entry.
C4_CompareTotal ==
    (last.op = "cmpfile" /\ LiveOk /\ InsideRoot(Resolved(last.dst)))
    => last.res.kind = "ret"

\* C6: for two regular files cmpfile returns True exactly when, the stored
\* file being shorter than the threshold, the contents are identical, and
\* otherwise when the stored bytes are the record of the live file's size and
\* digest; a stored record always yields True or False; a size mismatch is
\* decided without computing the live digest; so a stored entry built from
\* content x compares False with a live file of different content (below the
\* threshold), of different size or of different digest.
C6_RegularOutcome ==
    (last.op = "cmpfile" /\ LiveEntry.type = "reg" /\ StoredEntry.type = "reg") =>
        LET s == LiveEntry.data
            d == StoredEntry.data
            true == last.res.kind = "ret" /\ last.res.val
            false == last.res.kind = "ret" /\ ~last.res.val
        IN  /\ Len(d) < minsz => (IF s = d THEN true ELSE false)
            /\ Len(d) >= minsz => (true <=> d = RecordOf(s))
            /\ Len(d) = minsz => (true \/ false)
            /\ (Len(d) = minsz /\ SubSeq(d, 1, SizeFieldLen) # BigEndian(Len(s), SizeFieldLen))
                   => false /\ ~last.res.hashed
            /\ \A x \in Contents :
                   (/\ StoredEntry = StoreFile(variant, Reg(x)).entry
                    /\ s # x
                    /\ \/ Len(x) < minsz
                       \/ Len(s) # Len(x)
                       \/ _get_file_md5(s) # _get_file_md5(x))
                   => false

\* the stored entry is the record of a file one byte longer than the live file
\* (the live file was truncated): cmpfile returned False without hashing
C6_Witness ==
    /\ last.op = "cmpfile" /\ LiveEntry.type = "reg"
    /\ Len(LiveEntry.data) >= minsz
    /\ StoredEntry = Reg(RecordOf(Fill(Len(LiveEntry.data) + 1, 1)))
    /\ last.res = Returns(FALSE, FALSE, last.res.at)

\* C7: with a live symbolic link, cmpfile returns True exactly when the stored
\* entry is a symbolic link with the same target string (wherever the link
\* points); when exactly one of the two is a symbolic link it returns False.
C7_Symlink ==
    LET stored == At(image.tree, last.srcp) IN
    (last.op = "cmpfile" /\ (islink(LiveEntry) \/ islink(stored))) =>
        /\ last.res.kind = "ret"
        /\ last.res.val = (islink(LiveEntry) /\ islink(stored)
                           /\ LiveEntry.target = stored.target)

\* C8: on a Store opened "r" save raises ArgumentError and leaves the store's
\* content as it was; on a Store opened "w" getdir and cmpfile raise
\* ArgumentError; an operation returns only under a mode that permits it.
C8_ModeEnforced ==
    [][(variant = "dc" /\ pc = "body") =>
           /\ (last'.op = "save" /\ mode = "r")
                  => (last'.res = Raises("ArgumentError", <<>>) /\ image' = image)
           /\ (last'.op \in {"getdir", "cmpfile"} /\ mode = "w")
                  => last'.res = Raises("ArgumentError", <<>>)
           /\ (last'.op = "save" /\ last'.res.kind = "ret") => mode = "w"
           /\ (last'.op \in {"getdir", "cmpfile"} /\ last'.res.kind = "ret") => mode = "r"
      ]_vars

\* save was called on a read-only Store whose root holds a snapshot
C8_Witness ==
    /\ variant = "dc" /\ mode = "r" /\ pc = "exit"
    /\ last.op = "save" /\ last.res.exc = "ArgumentError"
    /\ image.tree # EmptyTree

\* what holds of release whether or not the unmount command succeeds: a
\* constructor that fails leaves no temporary mount point, a block that was
\* entered ends with a call of close, create_store leaves no temporary
\* directory
ReleaseAttempted ==
    /\ (last.op = "open" /\ last.res.kind = "raise") => (~mtmp /\ ~mounted)
    /\ (pc = "idle" /\ mode # "-") => closeRet # "none"
    /\ ~ctmp

C10_SaveReplaces ==
    (variant = "dc" /\ last.op = "save" /\ last.res.kind = "ret") => image.tree = built.snap

\* a save on a root that held entries, none of which is in the new snapshot
C10_Witness ==
    /\ variant = "dc" /\ last.op = "save" /\ last.res.kind = "ret"
    /\ last.note = "nonempty"
    /\ built.snap # EmptyTree
    /\ image.tree = built.snap

\* C11: every symbolic link of the source tree that passes the filter, whether
\* it points to a file, to a directory or to nothing, is in the built snapshot
\* at the same relative path as a symbolic link with the same target string:
\* the builder does not follow the link, does not copy or hash what it points
\* to, and does not drop the entry.
C11_SymlinkMirrored ==
    JustBuilt =>
        \A p \in DOMAIN src :
            (src[p].type = "lnk" /\ Survives(p, built.inc, built.exc))
                => (p \in DOMAIN image.tree /\ image.tree[p] = Lnk(src[p].target))

\* C11, the part ccdir.py keeps: a symbolic link that os.walk lists among the
\* file names (it does not point to a directory) and that the snapshot holds
\* is stored by ccdir.create_store as a symbolic link with the same target.
C11_CcFileLinks ==
    (JustBuilt /\ variant = "cc") =>
        \A p \in DOMAIN src \cap DOMAIN image.tree :
            src[p].type = "lnk" => image.tree[p] = Lnk(src[p].target)

====
